---- MODULE Spec2Model ----
(***************************************************************************)
(* Model of the video upload backend, src/video_upload_backend/src/api/    *)
(* main.py: the POST /upload handler upload_video, the bounded stream      *)
(* writer _enforce_file_size and the name generator                        *)
(* _safe_destination_filename, run by several requests at once against one *)
(* shared upload directory.                                                *)
(*                                                                         *)
(* One step of the model is one system call or one return of an await of   *)
(* the handler, so the requests interleave at the granularity at which     *)
(* several workers sharing UPLOAD_DIR interleave.                          *)
(*                                                                         *)
(* Sizes are scaled: a "byte" of the model is one unit of length, the      *)
(* limit MAX_FILE_SIZE_BYTES and chunk_size are small numbers.  The code   *)
(* never inspects a byte's value (only len(chunk) and its emptiness), so   *)
(* the k-th byte of request o's stream is the tag Byte(o, k): any loss,    *)
(* duplication, reordering or mixing of bytes shows in a file's content.   *)
(***************************************************************************)
EXTENDS Integers, Sequences, FiniteSets, TLC

\* ------------------------------------------------------------------ bounds

\* The concurrent upload requests: two, which is what every statement about
\* one request's effect on another's files needs.
Ops == {1, 2}

\* The clock of datetime.utcnow(), in seconds, runs from 0 to MaxClock.
MaxClock == 1

\* The longest client filename the name-generation specification draws.
MaxNameLen == 3

\* ------------------------------------------------------- program constants

\* main.py:12, scaled from 500 * 1024 * 1024.
MAX_FILE_SIZE_BYTES == 2

\* main.py:102, scaled from 1024 * 1024.
chunk_size == 2

\* Python's None, for a string attribute kept as a string.
None == "None"

\* Python's None, for a string attribute kept as a sequence of characters.
NoneName == << "None" >>

\* No path assigned yet.
NoPath == [kind |-> "none"]

\* ------------------------------------------------------------ the inputs

\* file.filename: None, or a string as the sequence of its characters.
FileNames == { NoneName,
               <<"m", ".", "M", "P", "4">>,
               <<"n", "o">> }

\* The characters of the filenames of the name-generation specification: a
\* lower-case and an upper-case letter, the dot and the path separator.
NameChars == { "a", "M", ".", "/" }

\* file.filename for the name-generation specification: None, or any string
\* over NameChars of at most MaxNameLen characters, the empty one included.
NameInputs ==
    { NoneName } \cup UNION { [1..n -> NameChars] : n \in 0..MaxNameLen }

\* file.content_type: absent or empty, which pass the check of upload_video,
\* or one that does not pass it (and is accepted all the same).
ContentTypes == { None, "", "text/plain" }

\* The k-th byte of the stream of request o.
Byte(o, k) == 10 * o + k

\* The next n bytes of request o's stream after the first r.
StreamChunk(o, r, n) == [k \in 1..n |-> Byte(o, r + k)]

\* ------------------------------------------------------- name generation

\* str.lower() on the characters the inputs use.
LowerChar(c) ==
    CASE c = "M" -> "m"
      [] c = "P" -> "p"
      [] c = "A" -> "a"
      [] c = "B" -> "b"
      [] OTHER -> c

Lower(s) == [i \in 1..Len(s) |-> LowerChar(s[i])]

\* str.rfind(c): the last index of c in s, 0 when absent (1-based).
RFind(s, c) ==
    LET hits == { i \in 1..Len(s) : s[i] = c }
    IN  IF hits = {} THEN 0 ELSE CHOOSE i \in hits : \A j \in hits : j <= i

\* A split at the last "." of the whole string, wherever it is.
SplitExtAtLastDot(p) ==
    IF RFind(p, ".") = 0 THEN <<>> ELSE SubSeq(p, RFind(p, "."), Len(p))

\* os.path.splitext(p)[1]: the suffix from the last "." of the last path
\* component, empty when that component has no "." after its leading dots.
SplitExt(p) ==
    LET sepIndex == RFind(p, "/")
        dotIndex == RFind(p, ".")
    IN  IF dotIndex > sepIndex
           /\ \E i \in (sepIndex + 1)..(dotIndex - 1) : p[i] # "."
        THEN SubSeq(p, dotIndex, Len(p))
        ELSE <<>>

\* "upload.bin", the fallback of upload_video for an absent or empty name.
FallbackName == <<"u", ".", "b", "i", "n">>

\* A name generator that leaves the random token out: f"{ts}{ext}".
SafeDestinationFilenameNoToken(original_name, ts, unique) ==
    [kind |-> "final", ts |-> ts, unique |-> 0,
     ext |-> Lower(SplitExt(original_name))]

\* _safe_destination_filename: f"{ts}_{unique}{ext}".  ts and unique have a
\* fixed width, so the string is decoded uniquely into these three fields.
SafeDestinationFilename(original_name, ts, unique) ==
    [kind |-> "final", ts |-> ts, unique |-> unique,
     ext |-> Lower(SplitExt(original_name))]

\* One temp name for every request: ".uploading.part".
TmpPathFixed(unique) == [kind |-> "tmp", unique |-> 0]

\* f".uploading_{uuid}.part" in UPLOAD_DIR.
TmpPath(unique) == [kind |-> "tmp", unique |-> unique]

\* ------------------------------------------------------------- the state

VARIABLES
    dir,          \* UPLOAD_DIR: file name -> content
    now,          \* the clock, in seconds
    nextUuid,     \* uuid4(): the tokens handed out so far are 1..nextUuid-1
    pc,           \* each request's position in upload_video
    content_type, \* file.content_type or ""
    tmp_path,     \* _enforce_file_size's tmp_path
    out,          \* the handle of open(tmp_path, "wb"): "none", "open", "closed"
    total,        \* _enforce_file_size's total
    chunk,        \* the chunk last read and not yet written
    exc,          \* the exception in flight in _enforce_file_size
    received,     \* the bytes file.read has returned so far
    filename,     \* file.filename
    final_name,   \* upload_video's final_name
    response      \* what the request was answered with

vars == << dir, now, nextUuid, pc, content_type, tmp_path, out, total, chunk,
           exc, received, filename, final_name, response >>

\* A file of an earlier run of the service.
OldName == [kind |-> "final", ts |-> 0, unique |-> 0, ext |-> <<".", "m", "p", "4">>]
OldContent == <<7>>

NoResponse == [status |-> 0]

Init ==
    /\ dir = (OldName :> OldContent)
    /\ now = 0
    /\ nextUuid = 1
    /\ pc = [o \in Ops |-> "start"]
    /\ content_type = [o \in Ops |-> ""]
    /\ tmp_path = [o \in Ops |-> NoPath]
    /\ out = [o \in Ops |-> "none"]
    /\ total = [o \in Ops |-> 0]
    /\ chunk = [o \in Ops |-> <<>>]
    /\ exc = [o \in Ops |-> "none"]
    /\ received = [o \in Ops |-> <<>>]
    /\ filename = [o \in Ops |-> NoneName]
    /\ final_name = [o \in Ops |-> NoPath]
    /\ response = [o \in Ops |-> NoResponse]

\* ------------------------------------------------------ the file system

Exists(path) == path \in DOMAIN dir

\* os.remove(path)
Remove(d, path) == [n \in (DOMAIN d) \ {path} |-> d[n]]

\* open(path, "wb"): the file is created, or truncated when it exists.
Create(d, path) == [n \in (DOMAIN d) \cup {path} |-> IF n = path THEN <<>> ELSE d[n]]

\* A write that starts over at offset 0 instead of appending.
WriteFileFromStart(d, path, data) == [d EXCEPT ![path] = data]

\* out.write(data)
WriteFile(d, path, data) == [d EXCEPT ![path] = @ \o data]

\* A publish by copy: dst is created or replaced and src stays.
ReplaceKeepingSource(d, src, dst) ==
    [n \in (DOMAIN d) \cup {dst} |-> IF n = dst THEN d[src] ELSE d[n]]

\* os.replace(src, dst): dst is created or silently replaced, src is gone.
Replace(d, src, dst) ==
    [n \in ((DOMAIN d) \ {src}) \cup {dst} |-> IF n = dst THEN d[src] ELSE d[n]]

\* HTTPException(status_code, detail)
HTTPError(code, detail) == [status |-> code, detail |-> detail]

\* if os.path.exists(tmp_path): os.remove(tmp_path)
RemoveIfExists(d, path) == IF path \in DOMAIN d THEN Remove(d, path) ELSE d

\* The UploadResponse upload_video returns.
UploadResponse(fn, saved, size, ctype, updir) ==
    [status |-> 200, filename |-> fn, saved_as |-> saved,
     size_bytes |-> size, content_type |-> ctype, upload_dir |-> updir]

\* --------------------------------------------------------- upload_video

\* The comparison off by one: total >= MAX_FILE_SIZE_BYTES.
ExceedsLimitOffByOne(t) == t >= MAX_FILE_SIZE_BYTES

\* The comparison against a limit one too high: total > MAX_FILE_SIZE_BYTES + 1.
ExceedsLimitLate(t) == t > MAX_FILE_SIZE_BYTES + 1

\* if total > MAX_FILE_SIZE_BYTES
ExceedsLimit(t) == t > MAX_FILE_SIZE_BYTES

\* x or y, on file.filename
OrName(x, y) == IF x = NoneName \/ x = <<>> THEN y ELSE x

\* The request carries no file: HTTP 400, before anything is created.
MissingFile(o) ==
    /\ pc[o] = "start"
    /\ pc' = [pc EXCEPT ![o] = "missing_input"]
    /\ response' = [response EXCEPT ![o] = HTTPError(400, "No file part provided.")]
    /\ UNCHANGED << dir, now, nextUuid, content_type, tmp_path, out, total, chunk,
                    exc, received, filename, final_name >>

\* The check of the content type enforced: anything but "video/...",
\* "application/octet-stream" or "" is refused with HTTP 415.
StartStrict(o) ==
    /\ pc[o] = "start"
    /\ \E ct \in ContentTypes :
          /\ content_type' = [content_type EXCEPT ![o] = IF ct = None THEN "" ELSE ct]
          /\ IF ct \in { None, "", "application/octet-stream", "video/mp4" }
             THEN /\ tmp_path' = [tmp_path EXCEPT ![o] = TmpPath(nextUuid)]
                  /\ nextUuid' = nextUuid + 1
                  /\ pc' = [pc EXCEPT ![o] = "open"]
                  /\ response' = response
             ELSE /\ response' = [response EXCEPT ![o] =
                         HTTPError(415, "Only video files are allowed.")]
                  /\ pc' = [pc EXCEPT ![o] = "unsupported"]
                  /\ UNCHANGED << tmp_path, nextUuid >>
    /\ total' = [total EXCEPT ![o] = 0]
    /\ UNCHANGED << dir, now, out, chunk, exc, received, filename, final_name >>

\* The request carries a file: content_type is read (and never acted on),
\* _enforce_file_size is entered and picks tmp_path.
Start(o) ==
    /\ pc[o] = "start"
    /\ \E ct \in ContentTypes :
          content_type' = [content_type EXCEPT ![o] = IF ct = None THEN "" ELSE ct]
    /\ tmp_path' = [tmp_path EXCEPT ![o] = TmpPath(nextUuid)]
    /\ nextUuid' = nextUuid + 1
    /\ total' = [total EXCEPT ![o] = 0]
    /\ pc' = [pc EXCEPT ![o] = "open"]
    /\ UNCHANGED << dir, now, out, chunk, exc, received, filename, final_name, response >>

\* open(tmp_path, "wb") succeeds.
Open(o) ==
    /\ pc[o] = "open"
    /\ dir' = Create(dir, tmp_path[o])
    /\ out' = [out EXCEPT ![o] = "open"]
    /\ pc' = [pc EXCEPT ![o] = "read"]
    /\ UNCHANGED << now, nextUuid, content_type, tmp_path, total, chunk, exc,
                    received, filename, final_name, response >>

\* open(tmp_path, "wb") raises OSError: no file, no handle.
OpenFails(o) ==
    /\ pc[o] = "open"
    /\ exc' = [exc EXCEPT ![o] = "io"]
    /\ pc' = [pc EXCEPT ![o] = "cleanup"]
    /\ UNCHANGED << dir, now, nextUuid, content_type, tmp_path, out, total, chunk,
                    received, filename, final_name, response >>

\* A loop that raises the 413 from outside any with block, the handle left
\* as it is.
AfterCountSkippingClose(t) == IF ExceedsLimit(t) THEN "cleanup" ELSE "write"

\* A loop that notes the overflow and keeps draining the stream.
AfterCountDraining(t) == "write"

\* Where the loop goes once total counts the chunk just read.
AfterCount(t) == IF ExceedsLimit(t) THEN "close" ELSE "write"

\* The exception raised once total counts the chunk just read.
RaisedAfterCount(t) == IF ExceedsLimit(t) THEN "413" ELSE "none"

\* A loop body that leaves total as it was: the chunk just read is not counted.
ReadChunkNotCounting(o) ==
    /\ pc[o] = "read"
    /\ \E n \in 1..chunk_size :
          LET data == StreamChunk(o, Len(received[o]), n)
          IN  /\ received' = [received EXCEPT ![o] = @ \o data]
              /\ chunk' = [chunk EXCEPT ![o] = data]
              /\ pc' = [pc EXCEPT ![o] = AfterCount(total[o])]
              /\ exc' = [exc EXCEPT ![o] = RaisedAfterCount(total[o])]
    /\ UNCHANGED << dir, now, nextUuid, content_type, tmp_path, out, total, filename,
                    final_name, response >>

\* A loop body that writes the chunk first and compares total with the limit
\* afterwards.
ReadChunkWriteFirst(o) ==
    /\ pc[o] = "read"
    /\ \E n \in 1..chunk_size :
          LET data == StreamChunk(o, Len(received[o]), n)
          IN  /\ received' = [received EXCEPT ![o] = @ \o data]
              /\ dir' = WriteFile(dir, tmp_path[o], data)
              /\ total' = [total EXCEPT ![o] = @ + Len(data)]
              /\ pc' = [pc EXCEPT ![o] =
                     IF ExceedsLimit(total[o] + Len(data)) THEN "close" ELSE "read"]
              /\ exc' = [exc EXCEPT ![o] = RaisedAfterCount(total[o] + Len(data))]
    /\ UNCHANGED << now, nextUuid, content_type, tmp_path, out, chunk, filename,
                    final_name, response >>

\* await file.read(chunk_size) returns n bytes, 1 <= n <= chunk_size; total
\* counts them and is compared with the limit.
ReadChunk(o) ==
    /\ pc[o] = "read"
    /\ \E n \in 1..chunk_size :
          LET data == StreamChunk(o, Len(received[o]), n)
          IN  /\ received' = [received EXCEPT ![o] = @ \o data]
              /\ chunk' = [chunk EXCEPT ![o] = data]
              /\ total' = [total EXCEPT ![o] = @ + Len(data)]
              /\ pc' = [pc EXCEPT ![o] = AfterCount(total[o] + Len(data))]
              /\ exc' = [exc EXCEPT ![o] = RaisedAfterCount(total[o] + Len(data))]
    /\ UNCHANGED << dir, now, nextUuid, content_type, tmp_path, out, filename, final_name,
                    response >>

\* An end of stream that refuses an upload of no bytes with an HTTPException.
ReadEofRefusingEmpty(o) ==
    /\ pc[o] = "read"
    /\ chunk' = [chunk EXCEPT ![o] = <<>>]
    /\ exc' = [exc EXCEPT ![o] = IF total[o] = 0 THEN "413" ELSE exc[o]]
    /\ pc' = [pc EXCEPT ![o] = "close"]
    /\ UNCHANGED << dir, now, nextUuid, content_type, tmp_path, out, total,
                    received, filename, final_name, response >>

\* await file.read(chunk_size) returns b"": end of stream, break.
ReadEof(o) ==
    /\ pc[o] = "read"
    /\ chunk' = [chunk EXCEPT ![o] = <<>>]
    /\ pc' = [pc EXCEPT ![o] = "close"]
    /\ UNCHANGED << dir, now, nextUuid, content_type, tmp_path, out, total, exc,
                    received, filename, final_name, response >>

\* await file.read(chunk_size) raises an Exception.
ReadFails(o) ==
    /\ pc[o] = "read"
    /\ exc' = [exc EXCEPT ![o] = "io"]
    /\ pc' = [pc EXCEPT ![o] = "close"]
    /\ UNCHANGED << dir, now, nextUuid, content_type, tmp_path, out, total, chunk,
                    received, filename, final_name, response >>

\* The request is cancelled while suspended in await file.read(chunk_size):
\* asyncio.CancelledError, a BaseException, is raised at the await.
Cancel(o) ==
    /\ pc[o] = "read"
    /\ exc' = [exc EXCEPT ![o] = "cancelled"]
    /\ pc' = [pc EXCEPT ![o] = "close"]
    /\ UNCHANGED << dir, now, nextUuid, content_type, tmp_path, out, total, chunk,
                    received, filename, final_name, response >>

\* out.write(chunk) succeeds.
Write(o) ==
    /\ pc[o] = "write"
    /\ dir' = WriteFile(dir, tmp_path[o], chunk[o])
    /\ chunk' = [chunk EXCEPT ![o] = <<>>]
    /\ pc' = [pc EXCEPT ![o] = "read"]
    /\ UNCHANGED << now, nextUuid, content_type, tmp_path, out, total, exc,
                    received, filename, final_name, response >>

\* out.write(chunk) raises OSError.
WriteFails(o) ==
    /\ pc[o] = "write"
    /\ exc' = [exc EXCEPT ![o] = "io"]
    /\ pc' = [pc EXCEPT ![o] = "close"]
    /\ UNCHANGED << dir, now, nextUuid, content_type, tmp_path, out, total, chunk,
                    received, filename, final_name, response >>

\* Which except clause of _enforce_file_size catches exception e, if any:
\* HTTPException, then Exception; CancelledError is neither.
AfterClose(e) ==
    CASE e = "none"      -> "streamed_ok"
      [] e = "413"       -> "cleanup"
      [] e = "io"        -> "cleanup"
      [] e = "cancelled" -> "cancelled"

\* The with block is left: the handle is closed, whatever is in flight.
Close(o) ==
    /\ pc[o] = "close"
    /\ out' = [out EXCEPT ![o] = "closed"]
    /\ pc' = [pc EXCEPT ![o] = AfterClose(exc[o])]
    /\ UNCHANGED << dir, now, nextUuid, content_type, tmp_path, total, chunk, exc,
                    received, filename, final_name, response >>

\* The with block is left and the close (its flush) raises OSError, which
\* replaces whatever was in flight.
CloseFails(o) ==
    /\ pc[o] = "close"
    /\ out' = [out EXCEPT ![o] = "closed"]
    /\ exc' = [exc EXCEPT ![o] = "io"]
    /\ pc' = [pc EXCEPT ![o] = AfterClose("io")]
    /\ UNCHANGED << dir, now, nextUuid, content_type, tmp_path, total, chunk,
                    received, filename, final_name, response >>

\* One except clause for everything, answering 413 whatever was raised.
StreamErrorAlways413(e) == HTTPError(413, "File too large.")

\* The HTTPException an except clause of _enforce_file_size ends with.
StreamError(e) ==
    IF e = "413" THEN HTTPError(413, "File too large.")
                 ELSE HTTPError(500, "Failed to receive file data")

\* The except clauses of _enforce_file_size: the temp file is removed if it
\* exists, then the HTTPException is raised (re-raised, or a 500).
Cleanup(o) ==
    /\ pc[o] = "cleanup"
    /\ dir' = RemoveIfExists(dir, tmp_path[o])
    /\ response' = [response EXCEPT ![o] = StreamError(exc[o])]
    /\ pc' = [pc EXCEPT ![o] = IF exc[o] = "413" THEN "size_exceeded" ELSE "stream_error"]
    /\ UNCHANGED << now, nextUuid, content_type, tmp_path, out, total, chunk, exc,
                    received, filename, final_name >>

\* final_name = _safe_destination_filename(file.filename or "upload.bin"),
\* for a request whose file.filename is fn.
NamingWith(o, fn) ==
    /\ pc[o] = "streamed_ok"
    /\ filename' = [filename EXCEPT ![o] = fn]
    /\ final_name' = [final_name EXCEPT ![o] =
           SafeDestinationFilename(OrName(fn, FallbackName), now, nextUuid)]
    /\ nextUuid' = nextUuid + 1
    /\ pc' = [pc EXCEPT ![o] = "publishing"]
    /\ UNCHANGED << dir, now, content_type, tmp_path, out, total, chunk, exc,
                    received, response >>

\* The naming step, the client's filename drawn from FileNames.
Naming(o) == \E fn \in FileNames : NamingWith(o, fn)

\* os.replace(tmp_path, dest_path) succeeds and the UploadResponse is returned.
Publish(o) ==
    /\ pc[o] = "publishing"
    /\ dir' = Replace(dir, tmp_path[o], final_name[o])
    /\ response' = [response EXCEPT ![o] =
           UploadResponse(OrName(filename[o], final_name[o]), final_name[o],
                          total[o],
                          IF content_type[o] # "" THEN content_type[o] ELSE None,
                          "UPLOAD_DIR")]
    /\ pc' = [pc EXCEPT ![o] = "published"]
    /\ UNCHANGED << now, nextUuid, content_type, tmp_path, out, total, chunk, exc,
                    received, filename, final_name >>

\* os.replace(tmp_path, dest_path) raises OSError: nothing moved.
PublishFails(o) ==
    /\ pc[o] = "publishing"
    /\ pc' = [pc EXCEPT ![o] = "publish_cleanup"]
    /\ UNCHANGED << dir, now, nextUuid, content_type, tmp_path, out, total, chunk,
                    exc, received, filename, final_name, response >>

\* An except clause of upload_video that raises HTTP 500 without removing
\* the temp file.
PublishCleanupKeepsTemp(o) ==
    /\ pc[o] = "publish_cleanup"
    /\ response' = [response EXCEPT ![o] = HTTPError(500, "Failed to save file")]
    /\ pc' = [pc EXCEPT ![o] = "publish_error"]
    /\ UNCHANGED << dir, now, nextUuid, content_type, tmp_path, out, total, chunk,
                    exc, received, filename, final_name >>

\* The except clause of upload_video: the temp file is removed if it exists,
\* then HTTP 500 is raised.
PublishCleanup(o) ==
    /\ pc[o] = "publish_cleanup"
    /\ dir' = RemoveIfExists(dir, tmp_path[o])
    /\ response' = [response EXCEPT ![o] = HTTPError(500, "Failed to save file")]
    /\ pc' = [pc EXCEPT ![o] = "publish_error"]
    /\ UNCHANGED << now, nextUuid, content_type, tmp_path, out, total, chunk, exc,
                    received, filename, final_name >>

\* A second passes.
Tick ==
    /\ now < MaxClock
    /\ now' = now + 1
    /\ UNCHANGED << dir, nextUuid, pc, content_type, tmp_path, out, total, chunk,
                    exc, received, filename, final_name, response >>

Next ==
    \/ Tick
    \/ \E o \in Ops :
          \/ MissingFile(o)
          \/ Start(o)
          \/ Open(o)
          \/ OpenFails(o)
          \/ ReadChunk(o)
          \/ ReadEof(o)
          \/ ReadFails(o)
          \/ Cancel(o)
          \/ Write(o)
          \/ WriteFails(o)
          \/ Close(o)
          \/ CloseFails(o)
          \/ Cleanup(o)
          \/ Naming(o)
          \/ Publish(o)
          \/ PublishFails(o)
          \/ PublishCleanup(o)

Spec == Init /\ [][Next]_vars

\* One step of request o.
Step(o) ==
    \/ MissingFile(o)
    \/ Start(o)
    \/ Open(o)
    \/ OpenFails(o)
    \/ ReadChunk(o)
    \/ ReadEof(o)
    \/ ReadFails(o)
    \/ Cancel(o)
    \/ Write(o)
    \/ WriteFails(o)
    \/ Close(o)
    \/ CloseFails(o)
    \/ Cleanup(o)
    \/ Naming(o)
    \/ Publish(o)
    \/ PublishFails(o)
    \/ PublishCleanup(o)

\* ------------------------------------------------- vocabulary of the claims

\* The positions at which upload_video has returned or raised.
Terminal == { "missing_input", "size_exceeded", "stream_error", "cancelled",
              "publish_error", "published" }

Ended(o) == pc[o] \in Terminal

\* An I/O call of request o has raised, or the request was cancelled.
Faulted(o) ==
    \/ exc[o] \in { "io", "cancelled" }
    \/ pc[o] \in { "publish_cleanup", "publish_error" }

\* Request o has no file of its own in the directory, temp or final.
NoFileOf(o) == ~Exists(tmp_path[o]) /\ ~Exists(final_name[o])

\* -------------------------------------------------------------------- C1
\* C1: whichever way an upload ended (published, size exceeded, stream
\* read/write error, publish error), its temp file is no longer in the
\* upload directory.
C1_TempGoneAtEnd == \A o \in Ops : Ended(o) => ~Exists(tmp_path[o])

\* -------------------------------------------------------------------- C2
\* C2: an upload that ended with no I/O fault and no cancellation and whose
\* stream gave exactly MAX_FILE_SIZE_BYTES bytes, however chunked, is
\* published with status 200; one that had MAX_FILE_SIZE_BYTES + 1 bytes when
\* it stopped is answered 413 and has left no file in the upload directory.
C2_SizeBoundary ==
    \A o \in Ops :
        (Ended(o) /\ ~Faulted(o) /\ pc[o] # "missing_input") =>
            /\ Len(received[o]) = MAX_FILE_SIZE_BYTES =>
                   /\ pc[o] = "published"
                   /\ response[o].status = 200
                   /\ Exists(final_name[o])
            /\ Len(received[o]) = MAX_FILE_SIZE_BYTES + 1 =>
                   /\ pc[o] = "size_exceeded"
                   /\ response[o].status = 413
                   /\ NoFileOf(o)

\* Both sides of the boundary at once: one upload of exactly the limit
\* published, another of the limit plus one refused.
C2_Witness ==
    \E o1, o2 \in Ops :
        /\ pc[o1] = "published" /\ Len(received[o1]) = MAX_FILE_SIZE_BYTES
        /\ pc[o2] = "size_exceeded" /\ Len(received[o2]) = MAX_FILE_SIZE_BYTES + 1

\* -------------------------------------------------------------------- C3
\* C3: an upload cancelled while suspended in a chunk read ends as a stream
\* error does (HTTP 500), with its temp file deleted.
C3_CancelCleansUp ==
    \A o \in Ops :
        (Ended(o) /\ exc[o] = "cancelled") =>
            /\ response[o].status = 500
            /\ ~Exists(tmp_path[o])

\* -------------------------------------------------------------------- C4
\* C4: the published uploads have pairwise distinct saved_as names, and every
\* one of them is in the upload directory holding its own upload's bytes (so
\* none was overwritten by a later publish), as is the file of an earlier run.
C4_DistinctNames ==
    /\ \A o1, o2 \in Ops :
          (o1 # o2 /\ pc[o1] = "published" /\ pc[o2] = "published") =>
              response[o1].saved_as # response[o2].saved_as
    /\ \A o \in Ops :
          pc[o] = "published" =>
              /\ Exists(response[o].saved_as)
              /\ dir[response[o].saved_as] = received[o]
    /\ Exists(OldName) /\ dir[OldName] = OldContent

\* Two uploads of the same original filename named within the same second,
\* both published.
C4_Witness ==
    \E o1, o2 \in Ops :
        /\ o1 # o2
        /\ pc[o1] = "published" /\ pc[o2] = "published"
        /\ filename[o1] = filename[o2]
        /\ final_name[o1].ts = final_name[o2].ts
        /\ final_name[o1].ext = final_name[o2].ext

\* -------------------------------------------------------------------- C5
\* C5: the file of a published upload holds exactly the bytes file.read
\* returned, in the order it returned them, and size_bytes of the response is
\* that file's length.
C5_ContentFidelity ==
    \A o \in Ops :
        pc[o] = "published" =>
            /\ Len(received[o]) <= MAX_FILE_SIZE_BYTES
            /\ dir[response[o].saved_as] = received[o]
            /\ response[o].size_bytes = Len(dir[response[o].saved_as])

\* A published upload of as many bytes as two reads of one byte, or one read
\* of two, give.
C5_Witness ==
    \E o \in Ops :
        /\ pc[o] = "published"
        /\ Len(received[o]) = 2
        /\ total[o] = 2
        /\ chunk[o] = <<>>

\* -------------------------------------------------------------------- C6
\* C6: after an upload has failed, in whatever way, the upload directory
\* holds no file of it (no temp leftover, no final-named file), and the files
\* that were there before it, or that other uploads published, are intact.
C6_NoPartialArtifacts ==
    /\ \A o \in Ops : (Ended(o) /\ pc[o] # "published") => NoFileOf(o)
    /\ \A o \in Ops :
          pc[o] = "published" =>
              Exists(final_name[o]) /\ dir[final_name[o]] = received[o]
    /\ Exists(OldName) /\ dir[OldName] = OldContent

\* -------------------------------------------------------------------- C7
\* C7: the step in which total first exceeds the limit raises the 413 and
\* leaves the read loop, and from then on the request never reads from the
\* stream again: what it has received stays as it is and it is never back
\* in the loop.
C7_EarlyAbort ==
    [][ \A o \in Ops :
          /\ (~ExceedsLimit(total[o]) /\ ExceedsLimit(total'[o])) =>
                 (exc'[o] = "413" /\ pc'[o] = "close")
          /\ ExceedsLimit(total[o]) =>
                 /\ received'[o] = received[o]
                 /\ total'[o] = total[o]
                 /\ pc'[o] \notin { "open", "read", "write" } ]_vars

\* An upload refused with 413 with the other still in its read loop.
C7_Witness ==
    \E o1, o2 \in Ops :
        /\ pc[o1] = "size_exceeded" /\ ExceedsLimit(total[o1])
        /\ pc[o2] = "read"

\* -------------------------------------------------------------------- C8
\* C8: a request without a file is answered 400 with no temp file ever
\* created; a running total above the limit is answered 413, unless an I/O
\* error came on top of it; an I/O error while reading the stream or writing
\* (opening, closing) the temp file is answered 500, never 413; and in both
\* cases the temp file is gone once the error is raised.
C8_ErrorKinds ==
    \A o \in Ops :
        /\ pc[o] = "missing_input" =>
               /\ response[o] = HTTPError(400, "No file part provided.")
               /\ tmp_path[o] = NoPath /\ out[o] = "none"
        /\ pc[o] = "size_exceeded" =>
               /\ response[o].status = 413
               /\ ExceedsLimit(total[o]) /\ exc[o] = "413"
        /\ pc[o] = "stream_error" =>
               /\ response[o] = HTTPError(500, "Failed to receive file data")
               /\ exc[o] = "io"
        /\ (Ended(o) /\ exc[o] = "io") => pc[o] = "stream_error"
        /\ (Ended(o) /\ ExceedsLimit(total[o]) /\ exc[o] # "io") =>
               pc[o] = "size_exceeded"
        /\ response[o].status \in { 413, 500 } => ~Exists(tmp_path[o])

\* One upload refused with 413 and another failed with 500 on writing a chunk
\* it had accepted.
C8_Witness ==
    \E o1, o2 \in Ops :
        /\ pc[o1] = "size_exceeded"
        /\ pc[o2] = "stream_error" /\ chunk[o2] # <<>> /\ ~ExceedsLimit(total[o2])

\* -------------------------------------------------------------------- C9
\* C9: when os.replace fails nothing was moved, and once the request has
\* raised its "Failed to save file" 500 neither its temp file nor a file
\* under its final name is in the upload directory.
C9_PublishFailure ==
    \A o \in Ops :
        /\ pc[o] = "publish_cleanup" => ~Exists(final_name[o])
        /\ pc[o] = "publish_error" =>
               /\ response[o] = HTTPError(500, "Failed to save file")
               /\ ~Exists(tmp_path[o])
               /\ ~Exists(final_name[o])

\* A failed publish of an upload that had streamed bytes, next to a
\* published one.
C9_Witness ==
    \E o1, o2 \in Ops :
        /\ pc[o1] = "publish_error" /\ received[o1] # <<>>
        /\ pc[o2] = "published"

\* ------------------------------------------------------------------- C10
\* The state of the orchestrator's state machine at each position.
OrchState(p) ==
    CASE p = "start" -> "START"
      [] p \in { "open", "read", "write", "close", "cleanup" } -> "STREAMING"
      [] p = "missing_input" -> "MISSING_INPUT"
      [] p = "size_exceeded" -> "SIZE_EXCEEDED"
      [] p = "stream_error" -> "STREAM_ERROR"
      [] p = "cancelled" -> "CANCELLED"
      [] p = "streamed_ok" -> "STREAMED_OK"
      [] p \in { "publishing", "publish_cleanup" } -> "PUBLISHING"
      [] p = "publish_error" -> "PUBLISH_ERROR"
      [] p = "published" -> "PUBLISHED"

\* The transitions of
\* START -> STREAMING -> (SIZE_EXCEEDED | STREAM_ERROR | STREAMED_OK)
\*   -> [STREAMED_OK -> NAMING -> PUBLISHING -> (PUBLISHED | PUBLISH_ERROR)],
\* NAMING being the step from STREAMED_OK to PUBLISHING, and START's exit on
\* a missing input.
OrchEdges ==
    { <<"START", "STREAMING">>, <<"START", "MISSING_INPUT">>,
      <<"STREAMING", "SIZE_EXCEEDED">>, <<"STREAMING", "STREAM_ERROR">>,
      <<"STREAMING", "STREAMED_OK">>, <<"STREAMED_OK", "PUBLISHING">>,
      <<"PUBLISHING", "PUBLISHED">>, <<"PUBLISHING", "PUBLISH_ERROR">> }

\* C10: every request moves along the transitions of the linear state
\* machine only (so no state is entered twice and nothing is retried), leaves
\* STREAMING for SIZE_EXCEEDED, STREAM_ERROR or STREAMED_OK, and once it has
\* ended it has exactly one outcome, an UploadResponse or an HTTP error,
\* which never changes.
C10_LinearStateMachine ==
    [][ \A o \in Ops :
          /\ OrchState(pc[o]) # OrchState(pc'[o]) =>
                 /\ <<OrchState(pc[o]), OrchState(pc'[o])>> \in OrchEdges
                 /\ Ended(o)' => response'[o].status \in { 200, 400, 413, 500 }
          /\ Ended(o) => (pc'[o] = pc[o] /\ response'[o] = response[o]) ]_vars

\* ------------------------------------------------------------------- C11
\* The files of the upload directory with a final name, and those with the
\* temp-marker prefix.
FinalFiles == { n \in DOMAIN dir : n.kind = "final" }
TempFiles == { n \in DOMAIN dir : n.kind = "tmp" }

\* C11: in every reachable state every final-named file of the upload
\* directory has at most MAX_FILE_SIZE_BYTES bytes.
C11_StoredSizeWithinLimit ==
    \A n \in FinalFiles : Len(dir[n]) <= MAX_FILE_SIZE_BYTES

\* Two published files of exactly the limit, side by side.
C11_Witness ==
    \E o1, o2 \in Ops :
        /\ o1 # o2
        /\ pc[o1] = "published" /\ Len(dir[final_name[o1]]) = MAX_FILE_SIZE_BYTES
        /\ pc[o2] = "published" /\ Len(dir[final_name[o2]]) = MAX_FILE_SIZE_BYTES

\* ------------------------------------------------------------------- C12
\* C12: every final-named file is the file of an earlier run or the complete
\* content of a published upload, one that read to the end of its stream with
\* nothing raised; and every file with the temp-marker prefix is the temp file
\* of a request that is not published.
C12_AtomicPublish ==
    /\ \A n \in FinalFiles :
          \/ n = OldName /\ dir[n] = OldContent
          \/ \E o \in Ops :
                /\ final_name[o] = n
                /\ pc[o] = "published"
                /\ exc[o] = "none" /\ chunk[o] = <<>>
                /\ dir[n] = received[o]
    /\ \A n \in TempFiles :
          \E o \in Ops : tmp_path[o] = n /\ pc[o] # "published"

\* A published upload next to one that is still streaming, with part of its
\* bytes in its temp file.
C12_Witness ==
    \E o1, o2 \in Ops :
        /\ pc[o1] = "published" /\ received[o1] # <<>>
        /\ pc[o2] = "read" /\ Exists(tmp_path[o2]) /\ dir[tmp_path[o2]] # <<>>

\* ------------------------------------------------------------------- C13
\* C13: two requests never have the same temp path; a step of one request
\* leaves the temp file and the final file of every other request as they
\* are, there or not; and whatever the interleaving, a request's temp file
\* holds exactly the chunks that request has written.
C13_ExclusiveOwnership ==
    /\ [](\A o1, o2 \in Ops :
            (o1 # o2 /\ tmp_path[o1] # NoPath) => tmp_path[o1] # tmp_path[o2])
    /\ [](\A o \in Ops :
            pc[o] \in { "read", "write" } =>
                /\ Exists(tmp_path[o])
                /\ dir[tmp_path[o]] \o chunk[o] = received[o])
    /\ [][ \A o1, o2 \in Ops :
             (o1 # o2 /\ pc'[o1] # pc[o1]) =>
                 \A n \in { tmp_path[o2], final_name[o2] } :
                     /\ (n \in DOMAIN dir) <=> (n \in DOMAIN dir')
                     /\ (n \in DOMAIN dir) => dir'[n] = dir[n] ]_vars

\* Both requests in their read loops at once, each with bytes in its own
\* temp file.
C13_Witness ==
    \E o1, o2 \in Ops :
        /\ o1 # o2
        /\ pc[o1] = "read" /\ dir[tmp_path[o1]] # <<>>
        /\ pc[o2] = "write" /\ dir[tmp_path[o2]] # <<>>

\* ------------------------------------------------------------------- C14
\* Two uploads side by side that get the same stream, the same filename and
\* the same faults, and declare whatever content types they like: request 1
\* takes a step, request 2 takes the same step, and so on.

\* The bytes of request o as positions in its stream.
Untag(o, bytes) == [i \in 1..Len(bytes) |-> bytes[i] - 10 * o]

\* The content of a file of request o, or that it is not there.
FileView(o, path) ==
    IF path \in DOMAIN dir THEN [there |-> TRUE, bytes |-> Untag(o, dir[path])]
                           ELSE [there |-> FALSE, bytes |-> <<>>]

\* What request o was answered with, but for the echoed content type and the
\* token of the saved name.
ResponseView(o) ==
    IF response[o].status = 200
    THEN [status |-> 200, size_bytes |-> response[o].size_bytes,
          ext |-> response[o].saved_as.ext, ts |-> response[o].saved_as.ts,
          upload_dir |-> response[o].upload_dir, detail |-> ""]
    ELSE [status |-> response[o].status, size_bytes |-> 0, ext |-> <<>>, ts |-> 0,
          upload_dir |-> "",
          detail |-> IF response[o].status = 0 THEN "" ELSE response[o].detail]

\* Everything of request o and of its files but its declared content type and
\* the random tokens of its names.
View(o) ==
    [pc |-> pc[o], out |-> out[o], total |-> total[o], exc |-> exc[o],
     chunk |-> Untag(o, chunk[o]), received |-> Untag(o, received[o]),
     filename |-> filename[o],
     named |-> final_name[o] # NoPath,
     ext |-> IF final_name[o] = NoPath THEN <<>> ELSE final_name[o].ext,
     tmp |-> FileView(o, tmp_path[o]),
     final |-> FileView(o, final_name[o]),
     response |-> ResponseView(o)]

InSync == View(1) = View(2)

\* Request 1 takes any step (or a second passes).
Lead == InSync /\ (Tick \/ Step(1))

\* Request 2 takes the step request 1 has just taken.
Follow == ~InSync /\ Step(2) /\ InSync'

NextPair == Lead \/ Follow

SpecPair == Init /\ [][NextPair]_vars

\* C14: whatever content type request 2 declares next to request 1's, it can
\* take every step request 1 takes, through the same positions to the same
\* outcome with the same bytes on disk; and the UploadResponse echoes the
\* declared content type, None when none (or an empty one) was declared.
C14_ContentTypeAdvisory ==
    /\ ~InSync => ENABLED Follow
    /\ (~InSync /\ pc[1] = "open" /\ pc[2] = "start") =>
           \A ct \in ContentTypes :
               ENABLED (Follow /\ content_type'[2] = IF ct = None THEN "" ELSE ct)
    /\ \A o \in Ops :
           pc[o] = "published" =>
               response[o].content_type =
                   IF content_type[o] = "" THEN None ELSE content_type[o]

\* Two uploads published in step, one declared text/plain and one with no
\* content type.
C14_Witness ==
    /\ InSync
    /\ pc[1] = "published" /\ pc[2] = "published"
    /\ response[1].content_type = "text/plain"
    /\ response[2].content_type = None
    /\ received[1] # <<>>

\* ------------------------------------------------------------------- C15
\* C15: an upload whose first read returned the end of the stream, and that
\* ended with no I/O fault and no cancellation, is published: status 200,
\* size_bytes 0, and an empty file in the upload directory under the
\* generated name, which carries the lower-cased extension of the original
\* filename.
C15_ZeroByteAccepted ==
    \A o \in Ops :
        (Ended(o) /\ ~Faulted(o) /\ pc[o] # "missing_input" /\ received[o] = <<>>) =>
            /\ pc[o] = "published"
            /\ response[o].status = 200
            /\ response[o].size_bytes = 0
            /\ Exists(response[o].saved_as)
            /\ dir[response[o].saved_as] = <<>>
            /\ response[o].saved_as.kind = "final"
            /\ filename[o] = <<"m", ".", "M", "P", "4">> =>
                   response[o].saved_as.ext = <<".", "m", "p", "4">>

\* A zero-byte upload of "m.MP4", published.
C15_Witness ==
    \E o \in Ops :
        /\ pc[o] = "published"
        /\ received[o] = <<>>
        /\ filename[o] = <<"m", ".", "M", "P", "4">>
        /\ dir[final_name[o]] = <<>>

\* ------------------------------------------------------------------- C16
\* The name-generation specification: one request, its filename drawn from
\* NameInputs.
StepNames(o) ==
    \/ MissingFile(o)
    \/ Start(o)
    \/ Open(o)
    \/ OpenFails(o)
    \/ ReadChunk(o)
    \/ ReadEof(o)
    \/ ReadFails(o)
    \/ Cancel(o)
    \/ Write(o)
    \/ WriteFails(o)
    \/ Close(o)
    \/ CloseFails(o)
    \/ Cleanup(o)
    \/ \E fn \in NameInputs : NamingWith(o, fn)
    \/ Publish(o)
    \/ PublishFails(o)
    \/ PublishCleanup(o)

NextNames == Tick \/ StepNames(1)

SpecNames == Init /\ [][NextNames]_vars

\* The request has been given its final name.
Named(o) == final_name[o] # NoPath

\* The name the generator is called with: "upload.bin" for an absent or
\* empty file.filename.
GivenName(o) ==
    IF filename[o] = NoneName \/ filename[o] = <<>> THEN FallbackName
    ELSE filename[o]

\* The part of p after its last "/".
LastComponent(p) == SubSeq(p, RFind(p, "/") + 1, Len(p))

RECURSIVE StripLeadingDots(_)
StripLeadingDots(s) ==
    IF s # <<>> /\ Head(s) = "." THEN StripLeadingDots(Tail(s)) ELSE s

\* The suffix from the last "." of the last path component of p once its
\* leading dots are set aside, empty when no "." is left there.
ComponentSuffix(p) ==
    LET c == StripLeadingDots(LastComponent(p))
    IN  IF RFind(c, ".") = 0 THEN <<>> ELSE SubSeq(c, RFind(c, "."), Len(c))

\* The suffix of p from its last ".", empty when p has no ".".
LastDotSuffix(p) ==
    IF \A i \in 1..Len(p) : p[i] # "." THEN <<>>
    ELSE LET d == CHOOSE i \in 1..Len(p) :
                     p[i] = "." /\ \A j \in (i + 1)..Len(p) : p[j] # "."
         IN  [k \in 1..(Len(p) - d + 1) |-> p[d + k - 1]]

\* C16 as stated: the final name is <ts>_<unique><ext>, ext being the
\* lower-cased suffix of the original filename from its last "." (empty when
\* it has none), and ".bin" when the filename is absent or empty.
C16_ExtAtLastDot ==
    \A o \in Ops :
        Named(o) =>
            final_name[o] =
                [kind |-> "final", ts |-> final_name[o].ts,
                 unique |-> final_name[o].unique,
                 ext |-> Lower(LastDotSuffix(GivenName(o)))]

\* C16 amended: the final name is <ts>_<unique><ext> and carries nothing else
\* of the original filename; ext is the lower-cased suffix from the last "."
\* of the filename's last path component, provided a character other than
\* "." precedes that dot within the component, and empty otherwise; an
\* absent or empty filename gives ".bin".
C16_SafeName ==
    \A o \in Ops :
        Named(o) =>
            /\ final_name[o] =
                   [kind |-> "final", ts |-> final_name[o].ts,
                    unique |-> final_name[o].unique,
                    ext |-> Lower(ComponentSuffix(GivenName(o)))]
            /\ final_name[o].ts \in 0..now
            /\ final_name[o].unique \in 1..(nextUuid - 1)
            /\ (filename[o] = NoneName \/ filename[o] = <<>>) =>
                   final_name[o].ext = <<".", "b", "i", "n">>

\* A dot-file name was given an empty extension, and a name with an
\* upper-case extension a lower-case one.
C16_Witness ==
    \E o \in Ops :
        /\ Named(o)
        /\ \/ filename[o] = <<".", "M">> /\ final_name[o].ext = <<>>
           \/ filename[o] = <<"a", ".", "M">> /\ final_name[o].ext = <<".", "m">>

\* ------------------------------------------------------------------- C17
\* C17: the handle on the temp file is released on every exit path of
\* _enforce_file_size: no request that has ended holds an open handle, and
\* whenever a request's temp file leaves the directory, deleted by a cleanup
\* or renamed by the publish, its handle has been closed before.
C17_HandleReleased ==
    /\ [](\A o \in Ops : Ended(o) => out[o] # "open")
    /\ [][\A o \in Ops :
             (tmp_path[o] # NoPath /\ Exists(tmp_path[o])
                 /\ tmp_path[o] \notin DOMAIN dir') => out[o] = "closed"]_vars

\* One request ended with a 413 and another was published, each with its
\* handle closed and its temp file gone.
C17_Witness ==
    \E o1, o2 \in Ops :
        /\ pc[o1] = "size_exceeded" /\ out[o1] = "closed" /\ ~Exists(tmp_path[o1])
        /\ pc[o2] = "published" /\ out[o2] = "closed" /\ ~Exists(tmp_path[o2])

\* ------------------------------------------------------------------- C18
\* The bytes in the temp file of request o, none when it has no temp file.
Written(o) ==
    IF tmp_path[o] # NoPath /\ Exists(tmp_path[o]) THEN Len(dir[tmp_path[o]]) ELSE 0

\* C18: at every moment of an upload the bytes written to its temp file are
\* at most MAX_FILE_SIZE_BYTES, and whenever the loop is about to read (the
\* file just opened, or a chunk just accepted and written) the temp file's
\* length equals total; a write happens only with total within the limit,
\* so the chunk that crosses it is never written; total never decreases.
C18_CheckBeforeWrite ==
    /\ [](\A o \in Ops :
            /\ Written(o) <= MAX_FILE_SIZE_BYTES
            /\ Written(o) <= total[o]
            /\ pc[o] = "read" => Exists(tmp_path[o]) /\ Written(o) = total[o])
    /\ [][\A o \in Ops :
             /\ total'[o] >= total[o]
             /\ (pc[o] = "write" /\ pc'[o] = "read") =>
                    /\ total[o] <= MAX_FILE_SIZE_BYTES
                    /\ dir'[tmp_path[o]] = dir[tmp_path[o]] \o chunk[o]]_vars

\* A chunk crossed the limit after an accepted one: total counts it, the
\* temp file holds the accepted bytes only.
C18_Witness ==
    \E o \in Ops :
        /\ pc[o] = "close" /\ exc[o] = "413"
        /\ total[o] > MAX_FILE_SIZE_BYTES
        /\ Written(o) > 0 /\ Written(o) < total[o]

\* ------------------------------------------------------------------- C19
\* The steps of the requests alone.  The clock is left at rest: it stamps
\* the final names and no step of a request waits on it.
NextFair == \E o \in Ops : Step(o)

\* Every call a request is waiting on returns or raises in the end: the event
\* loop leaves no request forever at a step it can take.  The stream is
\* never forced to end: ReadChunk is enabled at every read.
FairSpec == Init /\ [][NextFair]_vars /\ \A o \in Ops : WF_vars(Step(o))

\* C19: under fairness every request reaches a terminal position, however
\* long its stream, an endless one included: every chunk read is counted in
\* total, so a request never takes more than MAX_FILE_SIZE_BYTES + chunk_size
\* bytes from its stream, in at most MAX_FILE_SIZE_BYTES + 1 non-empty reads.
C19_Termination ==
    /\ [](\A o \in Ops :
            /\ total[o] = Len(received[o])
            /\ Len(received[o]) <= MAX_FILE_SIZE_BYTES + chunk_size)
    /\ \A o \in Ops : <>Ended(o)

\* A request took as many bytes from its stream as any request can, and
\* ended with the 413.
C19_Witness ==
    \E o \in Ops :
        /\ pc[o] = "size_exceeded"
        /\ Len(received[o]) = MAX_FILE_SIZE_BYTES + chunk_size

====
